---------------------------- MODULE Spec2Model ----------------------------
(***************************************************************************)
(* A model of the travel assistant's conversation core:                    *)
(*   - backend/orchestrator/travel_chat.py: ConversationState,             *)
(*     process_message, and the agent tools update_travel_details and      *)
(*     generate_search_queries;                                            *)
(*   - backend/orchestrator/query_parser.py: TravelQueryDetails,           *)
(*     FlightSearchQuery, generate_date_options and                        *)
(*     create_flight_search_queries.                                       *)
(* The extraction oracle (parse_travel_query) and the reply generator      *)
(* (travel_chat_agent.run) are external: their results are inputs chosen   *)
(* nondeterministically from small sets.                                   *)
(***************************************************************************)
EXTENDS Integers, Sequences, FiniteSets, TLC

(***************************************************************************)
(* Bounds of the model.                                                    *)
(***************************************************************************)
\* number of process_message calls in one behaviour
MaxCalls == 2
\* number of state-changing tool calls the reply generator makes in one
\* behaviour
MaxToolCalls == 1

CallIds == 1..MaxCalls

(***************************************************************************)
(* Python values.  Optional[T] is a sequence of length at most one: None   *)
(* is << >> and a present value v is << v >>.                              *)
(***************************************************************************)
None == << >>
Some(v) == << v >>

\* truth value of an Optional[int] / Optional[float]: None and 0 are falsy
TruthyNum(o) == o # None /\ o[1] # 0
\* truth value of an Optional[str]: None and "" are falsy
TruthyOptStr(o) == o # None /\ o[1] # ""
\* truth value of an Optional[date]: every date is truthy
TruthyDate(o) == o # None
\* truth value of a str
TruthyStr(s) == s # ""
\* Python's "a or b" on an Optional[int] with an int default
OrElse(o, dflt) == IF TruthyNum(o) THEN o[1] ELSE dflt

(***************************************************************************)
(* datetime.date: a date is its proleptic Gregorian ordinal                *)
(* (date.toordinal()); timedelta(days=n) is the integer n.                 *)
(***************************************************************************)
IsLeap(y) == (y % 4 = 0) /\ ((y % 100 # 0) \/ (y % 400 = 0))

DaysInMonth(y, m) ==
  IF m = 2 THEN (IF IsLeap(y) THEN 29 ELSE 28)
  ELSE IF m \in {4, 6, 9, 11} THEN 30 ELSE 31

RECURSIVE DaysBeforeMonth(_, _)
DaysBeforeMonth(y, m) ==
  IF m = 1 THEN 0 ELSE DaysBeforeMonth(y, m - 1) + DaysInMonth(y, m - 1)

DaysBeforeYear(y) ==
  365 * (y - 1) + ((y - 1) \div 4) - ((y - 1) \div 100) + ((y - 1) \div 400)

\* date(y, m, d)
Date(y, m, d) == DaysBeforeYear(y) + DaysBeforeMonth(y, m) + d

\* the calendar years the model's dates lie in
Years == 2025..2026

\* the year, month and day of the date with ordinal o
YearMonthDay(o) ==
  LET ym == CHOOSE p \in Years \X (1..12) :
              /\ Date(p[1], p[2], 1) <= o
              /\ o < Date(p[1], p[2], 1) + DaysInMonth(p[1], p[2])
  IN [ year |-> ym[1], month |-> ym[2], day |-> o - Date(ym[1], ym[2], 1) + 1 ]

\* the calendar of the years of the model: YearMonthDay, tabulated
Calendar ==
  [ o \in Date(2025, 1, 1)..Date(2026, 12, 31) |-> YearMonthDay(o) ]

\* date.isoformat(): the year, month and day of a date, YYYY-MM-DD
isoformat(o) == Calendar[o]

(***************************************************************************)
(* datetime.strptime(name, "%B").month: the month number of a full month   *)
(* name, matched without regard to case; 0 stands for the ValueError       *)
(* raised on any other string.                                             *)
(***************************************************************************)
MonthNumber(name) ==
  CASE name \in {"January", "january", "JANUARY"} -> 1
    [] name \in {"February", "february", "FEBRUARY"} -> 2
    [] name \in {"March", "march", "MARCH"} -> 3
    [] name \in {"April", "april", "APRIL"} -> 4
    [] name \in {"May", "may", "MAY"} -> 5
    [] name \in {"June", "june", "JUNE"} -> 6
    [] name \in {"July", "july", "JULY"} -> 7
    [] name \in {"August", "august", "AUGUST"} -> 8
    [] name \in {"September", "september", "SEPTEMBER"} -> 9
    [] name \in {"October", "october", "OCTOBER"} -> 10
    [] name \in {"November", "november", "NOVEMBER"} -> 11
    [] name \in {"December", "december", "DECEMBER"} -> 12
    [] OTHER -> 0

(***************************************************************************)
(* TravelQueryDetails and FlightSearchQuery.                               *)
(***************************************************************************)
\* TravelQueryDetails(destination=dest): every other field at its default
TravelQueryDetails(dest) ==
  [ origin              |-> None,
    destination         |-> dest,
    budget              |-> None,
    trip_length_days    |-> None,
    earliest_start_date |-> None,
    latest_start_date   |-> None,
    specific_month      |-> None,
    travelers           |-> 1,
    flexible_dates      |-> FALSE,
    preferred_airlines  |-> << >>,
    max_stops           |-> None ]

FlightSearchQuery(origin, details, depart, return) ==
  [ origin             |-> origin,
    destination        |-> details.destination,
    depart_date        |-> depart,
    return_date        |-> return,
    budget             |-> details.budget,
    travelers          |-> details.travelers,
    max_stops          |-> details.max_stops,
    preferred_airlines |-> details.preferred_airlines ]

(***************************************************************************)
(* generate_date_options(details).  today is the value of date.today(),    *)
(* a record of its year, month and day.                                    *)
(***************************************************************************)
\* the while loop of the month branch
RECURSIVE MonthLoop(_, _, _, _, _)
MonthLoop(current_start, month_end, trip_length, step, date_pairs) ==
  IF current_start <= month_end - trip_length
  THEN LET current_end == current_start + trip_length
       IN MonthLoop(current_start + step, month_end, trip_length, step,
                    IF current_end <= month_end
                    THEN Append(date_pairs, << current_start, current_end >>)
                    ELSE date_pairs)
  ELSE date_pairs

\* the while loop of the explicit date range branch
RECURSIVE RangeLoop(_, _, _, _)
RangeLoop(current_start, latest_start, trip_length, date_pairs) ==
  IF current_start <= latest_start
  THEN RangeLoop(current_start + 3, latest_start, trip_length,
                 Append(date_pairs,
                        << current_start, current_start + trip_length >>))
  ELSE date_pairs

MonthBranch(details, today) ==
  LET month_num == MonthNumber(details.specific_month[1])
      year == IF month_num < today.month THEN today.year + 1 ELSE today.year
      month_start == Date(year, month_num, 1)
      next_month == IF month_num = 12 THEN Date(year + 1, 1, 1)
                    ELSE Date(year, month_num + 1, 1)
      month_end == next_month - 1
      trip_length == OrElse(details.trip_length_days, 3)
      step == IF trip_length <= 3 THEN 5 ELSE 3
  IN IF month_num = 0
     THEN << >>
     ELSE MonthLoop(month_start, month_end, trip_length, step, << >>)

RangeBranch(details) ==
  LET earliest == details.earliest_start_date[1]
      latest_start == IF TruthyDate(details.latest_start_date)
                      THEN details.latest_start_date[1]
                      ELSE earliest + 14
  IN RangeLoop(earliest, latest_start, details.trip_length_days[1], << >>)

FallbackBranch(details, today) ==
  LET trip_length == OrElse(details.trip_length_days, 3)
      future_start == Date(today.year, today.month, today.day) + 30
  IN [ k \in 1..5 |->
         << future_start + 7 * (k - 1),
            future_start + 7 * (k - 1) + trip_length >> ]

generate_date_options(details, today) ==
  IF TruthyOptStr(details.specific_month)
  THEN MonthBranch(details, today)
  ELSE IF TruthyDate(details.earliest_start_date)
          /\ TruthyNum(details.trip_length_days)
       THEN RangeBranch(details)
       ELSE FallbackBranch(details, today)

(***************************************************************************)
(* create_flight_search_queries(details)                                   *)
(***************************************************************************)
create_flight_search_queries(details, today) ==
  LET date_pairs == generate_date_options(details, today)
      origin == IF TruthyOptStr(details.origin) THEN details.origin[1] ELSE "SEA"
  IN [ k \in 1..Len(date_pairs) |->
         FlightSearchQuery(origin, details, date_pairs[k][1], date_pairs[k][2]) ]


(***************************************************************************)
(* The inputs of the model.                                                *)
(***************************************************************************)
\* the days on which a behaviour takes place (date.today())
Todays == { [year |-> 2025, month |-> 7, day |-> 15] }

\* Session ids are strings; the model numbers them: 0 is the empty string,
\* the other numbers are non-empty strings.
\* the session id the client of one conversation sends with its messages
ClientIds == {1}

\* the session ids that clients make up when several of them talk
MadeUpIds == {1}

\* str(uuid.uuid4()) in call c: an id that no client made up and no other
\* call draws
uuid4(c) == 10 + c

\* the keys SESSION_STORAGE can come to hold
SessionIds == ClientIds \cup MadeUpIds \cup { uuid4(c) : c \in CallIds }

\* truth value of the argument session_id: Optional[str]
TruthyId(session_id) == session_id # None /\ session_id[1] # 0

\* dates the oracle extracts
EarlyDate == Date(2025, 9, 10)
LateDate == Date(2025, 9, 20)

\* parse_result.details: the details the extraction oracle returns for a
\* message.  NoDetails is what it returns for a message that carries nothing.
NoDetails == TravelQueryDetails("")

Extractions ==
  { NoDetails,
    TravelQueryDetails("Paris"),
    TravelQueryDetails("Rome"),
    [NoDetails EXCEPT !.budget = Some(500)],
    [NoDetails EXCEPT !.specific_month = Some("June"),
                      !.trip_length_days = Some(3)],
    [TravelQueryDetails("Paris") EXCEPT !.specific_month = Some("June"),
                                        !.trip_length_days = Some(3)],
    [TravelQueryDetails("Rome") EXCEPT !.origin = Some("NYC"),
                                       !.budget = Some(500),
                                       !.trip_length_days = Some(5),
                                       !.earliest_start_date = Some(EarlyDate),
                                       !.latest_start_date = Some(LateDate),
                                       !.travelers = 2,
                                       !.flexible_dates = TRUE,
                                       !.preferred_airlines = << "Delta" >>,
                                       !.max_stops = Some(1)] }

\* parse_result.missing_info: the oracle's list of missing information
OracleMissing ==
  { << >>,
    << "budget" >>,
    << "budget", "budget" >>,
    << "trip_length_days", "travel_dates" >>,
    << "specific_month" >> }

\* parse_result.search_queries: the oracle's own list of search queries:
\* none, those the date generator would give, or one for a departure and a
\* return on the same day
OracleQueryKinds == { "none", "generated", "same_day" }

OracleQueries(kind, details, day) ==
  CASE kind = "none" -> << >>
    [] kind = "generated" -> create_flight_search_queries(details, day)
    [] OTHER -> << FlightSearchQuery("SEA", details, EarlyDate, EarlyDate) >>

\* the arguments the reply generator passes to update_travel_details
ToolFields ==
  { "destination", "specific_month", "travel_dates", "budget", "max_stops" }
ToolValues == { "", "Rome" }

\* the details the oracle returns for the one-field sentence that
\* update_travel_details builds for field ("I want to go to Rome", "My
\* budget is ..."): nothing, or a value for what the sentence is about
ToolExtractions(field) ==
  { NoDetails }
  \cup (CASE field = "destination" -> { TravelQueryDetails("Rome") }
          [] field = "budget" -> { [NoDetails EXCEPT !.budget = Some(500)] }
          [] field = "specific_month" ->
               { [NoDetails EXCEPT !.specific_month = Some("June")] }
          [] field = "travel_dates" ->
               { [NoDetails EXCEPT !.specific_month = Some("June")],
                 [NoDetails EXCEPT !.earliest_start_date = Some(LateDate)] }
          [] OTHER -> { })

(***************************************************************************)
(* Python lists.                                                           *)
(***************************************************************************)
\* x in l
Contains(l, x) == \E i \in 1..Len(l) : l[i] = x

\* l.remove(x): drops the first occurrence of x
Remove(l, x) ==
  LET i == CHOOSE k \in 1..Len(l) : l[k] = x /\ \A j \in 1..(k - 1) : l[j] # x
  IN SubSeq(l, 1, i - 1) \o SubSeq(l, i + 1, Len(l))

\* if x in l: l.remove(x)
RemoveIfIn(l, x) == IF Contains(l, x) THEN Remove(l, x) ELSE l

\* l[:n]
Take(l, n) == SubSeq(l, 1, IF Len(l) < n THEN Len(l) ELSE n)

(***************************************************************************)
(* ConversationState and ChatResponse.                                     *)
(***************************************************************************)
\* ConversationState(session_id=sid)
ConversationState(sid) ==
  [ session_id           |-> sid,
    travel_details       |-> None,
    original_query       |-> None,
    missing_info         |-> << >>,
    queries_generated    |-> FALSE,
    search_queries       |-> << >>,
    last_updated_field   |-> None,
    conversation_history |-> << >> ]

\* the entry of a response's search_queries built from a stored query
ResponseQuery(q) ==
  [ origin      |-> q.origin,
    destination |-> q.destination,
    depart_date |-> isoformat(q.depart_date),
    return_date |-> isoformat(q.return_date),
    budget      |-> q.budget,
    travelers   |-> q.travelers ]

\* variant: the response carries all the stored queries
ChatResponse_Uncapped(state, message) ==
  [ message              |-> message,
    missing_info         |-> state.missing_info,
    has_complete_details |-> (state.missing_info = << >>) /\ state.queries_generated,
    search_queries       |->
      IF state.queries_generated /\ state.search_queries # << >>
      THEN [ k \in 1..Len(state.search_queries) |->
               ResponseQuery(state.search_queries[k]) ]
      ELSE << >>,
    session_id           |-> state.session_id ]

\* the ChatResponse process_message builds from the state; message is the
\* call whose reply it carries
ChatResponse(state, message) ==
  [ message              |-> message,
    missing_info         |-> state.missing_info,
    has_complete_details |-> (state.missing_info = << >>) /\ state.queries_generated,
    search_queries       |->
      IF state.queries_generated /\ state.search_queries # << >>
      THEN LET first5 == Take(state.search_queries, 5)
           IN [ k \in 1..Len(first5) |-> ResponseQuery(first5[k]) ]
      ELSE << >>,
    session_id           |-> state.session_id ]

(***************************************************************************)
(* process_message, first message of a session: the oracle's details and   *)
(* missing_info are taken as they are.                                     *)
(***************************************************************************)
FirstMerge(state, parse_result) ==
  [ state EXCEPT
      !.travel_details = Some(parse_result.details),
      !.missing_info = parse_result.missing_info,
      !.search_queries = IF parse_result.missing_info = << >>
                         THEN parse_result.search_queries ELSE @,
      !.queries_generated = IF parse_result.missing_info = << >>
                            THEN TRUE ELSE @ ]

\* variant: the except branch leaves missing_info as it is
FirstMergeFailed_NoMissing(state) ==
  [ state EXCEPT !.travel_details = Some(TravelQueryDetails("")) ]

\* the except branch of the first message
FirstMergeFailed(state) ==
  [ state EXCEPT
      !.travel_details = Some(TravelQueryDetails("")),
      !.missing_info = << "destination", "trip_length_days", "travel_dates",
                          "origin", "budget" >> ]

(***************************************************************************)
(* process_message, follow-up message: the conditions under which a field  *)
(* of the extraction replaces the stored one.                              *)
(***************************************************************************)
\* variant: the extracted destination is not tested for emptiness
UpdatesDestination_NoEmptyTest(td, e) ==
  e.destination # td.destination

UpdatesDestination(td, e) ==
  TruthyStr(e.destination)
  /\ (~TruthyStr(td.destination) \/ e.destination # td.destination)

UpdatesOrigin(td, e) ==
  TruthyOptStr(e.origin) /\ (~TruthyOptStr(td.origin) \/ e.origin # td.origin)

UpdatesTripLength(td, e) ==
  TruthyNum(e.trip_length_days)
  /\ (~TruthyNum(td.trip_length_days) \/ e.trip_length_days # td.trip_length_days)

UpdatesMonth(td, e) ==
  TruthyOptStr(e.specific_month)
  /\ (~TruthyOptStr(td.specific_month) \/ e.specific_month # td.specific_month)

UpdatesEarliest(td, e) ==
  TruthyDate(e.earliest_start_date)
  /\ (~TruthyDate(td.earliest_start_date)
      \/ e.earliest_start_date # td.earliest_start_date)

\* variant: the extracted budget is not compared with the stored one
UpdatesBudget_NoCompare(td, e) ==
  TruthyNum(e.budget)

UpdatesBudget(td, e) ==
  TruthyNum(e.budget) /\ (~TruthyNum(td.budget) \/ e.budget # td.budget)

UpdatesTravelers(td, e) ==
  e.travelers > 1 /\ (td.travelers = 1 \/ e.travelers # td.travelers)

\* the details after the follow-up merge of extraction e
MergedDetails(td, e) ==
  [ td EXCEPT
      !.destination = IF UpdatesDestination(td, e) THEN e.destination ELSE @,
      !.origin = IF UpdatesOrigin(td, e) THEN e.origin ELSE @,
      !.trip_length_days = IF UpdatesTripLength(td, e)
                           THEN e.trip_length_days ELSE @,
      !.specific_month = IF UpdatesMonth(td, e) THEN e.specific_month ELSE @,
      !.earliest_start_date = IF UpdatesEarliest(td, e)
                              THEN e.earliest_start_date ELSE @,
      !.budget = IF UpdatesBudget(td, e) THEN e.budget ELSE @,
      !.travelers = IF UpdatesTravelers(td, e) THEN e.travelers ELSE @ ]

\* missing_info after the follow-up merge of extraction e
MergedMissing(missing_info, td, e) ==
  LET m1 == IF UpdatesDestination(td, e)
            THEN RemoveIfIn(missing_info, "destination") ELSE missing_info
      m2 == IF UpdatesOrigin(td, e) THEN RemoveIfIn(m1, "origin") ELSE m1
      m3 == IF UpdatesTripLength(td, e)
            THEN RemoveIfIn(m2, "trip_length_days") ELSE m2
      date_fields_updated == UpdatesMonth(td, e) \/ UpdatesEarliest(td, e)
      m4 == IF date_fields_updated THEN RemoveIfIn(m3, "travel_dates") ELSE m3
      m5 == IF UpdatesBudget(td, e) THEN RemoveIfIn(m4, "budget") ELSE m4
      m6 == IF UpdatesTravelers(td, e) THEN RemoveIfIn(m5, "travelers") ELSE m5
  IN m6

FollowUpMerge(state, e) ==
  [ state EXCEPT
      !.travel_details = Some(MergedDetails(state.travel_details[1], e)),
      !.missing_info = MergedMissing(state.missing_info,
                                     state.travel_details[1], e) ]

(***************************************************************************)
(* The agent tool update_travel_details(field, value).                     *)
(***************************************************************************)
\* the fallback's clean-up of month names: the first month of the year, in
\* lower case, that starts with value.lower().strip() or whose first three
\* letters are it, capitalized; None when no month matches.  Tabulated for
\* ToolValues ("" is a prefix of "january").
MonthCleanup(value) ==
  CASE value = "" -> Some("January")
    [] value \in { "jun", "june", "Jun", "June" } -> Some("June")
    [] OTHER -> None

\* whether the try block assigns a field from the parse result e
ToolUpdated(field, e) ==
  \/ field = "destination" /\ TruthyStr(e.destination)
  \/ field = "origin" /\ TruthyOptStr(e.origin)
  \/ field = "trip_length_days" /\ TruthyNum(e.trip_length_days)
  \/ field = "specific_month" /\ TruthyOptStr(e.specific_month)
  \/ field = "travel_dates" /\ (\/ TruthyOptStr(e.specific_month)
                                \/ TruthyDate(e.earliest_start_date)
                                \/ TruthyDate(e.latest_start_date))
  \/ field = "budget" /\ TruthyNum(e.budget)
  \/ field = "travelers" /\ e.travelers > 0

\* the details after the try block's assignments from the parse result e
ToolParsedDetails(td, field, e) ==
  CASE field = "destination" /\ TruthyStr(e.destination) ->
         [td EXCEPT !.destination = e.destination]
    [] field = "origin" /\ TruthyOptStr(e.origin) ->
         [td EXCEPT !.origin = e.origin]
    [] field = "trip_length_days" /\ TruthyNum(e.trip_length_days) ->
         [td EXCEPT !.trip_length_days = e.trip_length_days]
    [] field = "specific_month" /\ TruthyOptStr(e.specific_month) ->
         [td EXCEPT !.specific_month = e.specific_month]
    [] field = "travel_dates" ->
         [td EXCEPT
            !.specific_month = IF TruthyOptStr(e.specific_month)
                               THEN e.specific_month ELSE @,
            !.earliest_start_date = IF TruthyDate(e.earliest_start_date)
                                    THEN e.earliest_start_date ELSE @,
            !.latest_start_date = IF TruthyDate(e.latest_start_date)
                                  THEN e.latest_start_date ELSE @]
    [] field = "budget" /\ TruthyNum(e.budget) ->
         [td EXCEPT !.budget = e.budget]
    [] field = "travelers" /\ e.travelers > 0 ->
         [td EXCEPT !.travelers = e.travelers]
    [] OTHER -> td

\* "if not updated": direct assignment of the raw value
ToolFallbackDetails(td, field, value) ==
  CASE field = "destination" -> [td EXCEPT !.destination = value]
    [] field = "origin" -> [td EXCEPT !.origin = Some(value)]
    [] field = "specific_month" ->
         [td EXCEPT !.specific_month = IF MonthCleanup(value) # None
                                       THEN MonthCleanup(value) ELSE @]
    [] OTHER -> td

\* the except branch: the oracle call raised
ToolExceptDetails(td, field, value) ==
  CASE field = "destination" -> [td EXCEPT !.destination = value]
    [] field = "origin" -> [td EXCEPT !.origin = Some(value)]
    [] OTHER -> td

\* the tool up to its await of the oracle: travel_details is initialised if
\* it is not set
InitialiseDetails(state) ==
  IF state.travel_details = None
  THEN [ state EXCEPT !.travel_details = Some(TravelQueryDetails("")) ]
  ELSE state

\* the tool from the answer of the oracle on.  outcome is None when
\* parse_travel_query raises, and Some(e) when it returns a result with
\* details e
UpdateAfterOracle(state, field, value, outcome) ==
  LET td0 == state.travel_details[1]
      td1 == IF outcome = None
             THEN ToolExceptDetails(td0, field, value)
             ELSE IF ToolUpdated(field, outcome[1])
                  THEN ToolParsedDetails(td0, field, outcome[1])
                  ELSE ToolFallbackDetails(td0, field, value)
  IN [ state EXCEPT
         !.travel_details = Some(td1),
         !.last_updated_field = Some(field),
         !.missing_info = RemoveIfIn(@, field) ]

\* the whole of update_travel_details, when nothing else runs while it
\* awaits the oracle
update_travel_details(state, field, value, outcome) ==
  UpdateAfterOracle(InitialiseDetails(state), field, value, outcome)

(***************************************************************************)
(* The agent tool generate_search_queries.                                 *)
(***************************************************************************)
\* identify_missing_information reports "Still missing: ..."
StillMissing(state) == state.missing_info # << >>

\* variant: the tool does not look at what is still missing
generate_search_queries_Unchecked(state, day) ==
  IF state.travel_details = None
  THEN state
  ELSE [ state EXCEPT
           !.search_queries =
             create_flight_search_queries(state.travel_details[1], day),
           !.queries_generated = TRUE ]

generate_search_queries(state, day) ==
  IF state.travel_details = None \/ StillMissing(state)
  THEN state
  ELSE LET td == state.travel_details[1]
           td1 == IF ~TruthyOptStr(td.origin)
                  THEN [td EXCEPT !.origin = Some("current location")]
                  ELSE td
       IN [ state EXCEPT
              !.travel_details = Some(td1),
              !.search_queries = create_flight_search_queries(td1, day),
              !.queries_generated = TRUE ]

(***************************************************************************)
(* process_message, the end of a turn: generation once nothing is missing  *)
(***************************************************************************)
\* (without travel_details the generator raises, and the except branch
\* leaves the state as it is)
EndOfTurnGeneration(state, day) ==
  IF /\ state.missing_info = << >>
     /\ ~state.queries_generated
     /\ state.travel_details # None
  THEN [ state EXCEPT
           !.search_queries = create_flight_search_queries(state.travel_details[1], day),
           !.queries_generated = TRUE ]
  ELSE state

(***************************************************************************)
(* The state of the program.                                               *)
(*   today  the value of date.today() during the behaviour                 *)
(*   store  SESSION_STORAGE: session id -> the ConversationState object    *)
(*          stored under it (0: the id is not in the store)                *)
(*   heap   the ConversationState objects; the object that call c creates  *)
(*          is object c                                                    *)
(*   calls  the process_message calls: where each one is (pc) and its      *)
(*          argument session_id, its local variables state (a reference    *)
(*          into heap) and parse_result, and the response it returned      *)
(*   tool_calls  the number of tool calls made so far                      *)
(*   generation  the invocations of the date generator made on their own:  *)
(*          the details passed, and for every invocation the day it ran on *)
(*          and the date pairs it returned                                 *)
(*   calendar_info  the last call of get_calendar_information made on its  *)
(*          own: its arguments and how it ended                            *)
(***************************************************************************)
VARIABLES today, store, heap, calls, tool_calls, generation, calendar_info

vars == << today, store, heap, calls, tool_calls, generation,
          calendar_info >>

\* a call that has not started, or whose frame is gone
NoCall ==
  [ pc |-> "idle", session_id |-> None, state |-> 0, first |-> FALSE,
    parse_result |-> None, tool |-> None, response |-> None ]

Finished(c) == calls[c].pc \in { "returned", "raised", "gone" }
InFlight(c) == calls[c].pc \in { "parsing", "agent", "tool" }

\* the frames of the calls that ended before are released
Released(cs) ==
  [ d \in CallIds |->
      IF cs[d].pc \in { "returned", "raised" }
      THEN [ NoCall EXCEPT !.pc = "gone" ] ELSE cs[d] ]

\* conversation_history.append({"role": role, "content": content, ...})
AppendHistory(state, role, content) ==
  [ state EXCEPT !.conversation_history =
      Append(@, [ role |-> role, content |-> content ]) ]

\* get_calendar_information has not been called on its own
NoCalendarCall ==
  [ pc |-> "idle", start_date |-> 0, end_date |-> 0, country_code |-> "",
    result |-> None ]

\* the date generator is not invoked on its own
NoGeneration == [ details |-> NoDetails, midnights |-> 0, results |-> << >> ]

Init ==
  /\ today \in Todays
  /\ store = [ sid \in SessionIds |-> 0 ]
  /\ heap = [ o \in CallIds |-> ConversationState(0) ]
  /\ calls = [ c \in CallIds |-> NoCall ]
  /\ tool_calls = 0
  /\ generation = NoGeneration
  /\ calendar_info = NoCalendarCall

(***************************************************************************)
(* process_message(user_message, session_id), up to the call of the        *)
(* oracle: the session is looked up or created, and the branch (first      *)
(* message or follow-up) is taken.                                         *)
(***************************************************************************)
\* variant: a session that is not in the store always gets a generated id
Start_FreshIdAlways(c, session_id) ==
  /\ calls[c].pc = "idle"
  /\ \A d \in CallIds : d < c => calls[d].pc # "idle"
  /\ LET known == TruthyId(session_id) /\ store[session_id[1]] # 0
         obj == IF known THEN store[session_id[1]] ELSE c
         new_id == uuid4(c)
         state == IF known THEN heap[obj] ELSE ConversationState(new_id)
         first == state.travel_details = None
     IN /\ heap' = [ heap EXCEPT ![obj] =
                       IF first THEN [ state EXCEPT !.original_query = Some(c) ]
                       ELSE state ]
        /\ calls' = [ Released(calls) EXCEPT ![c] =
                        [ NoCall EXCEPT !.pc = "parsing",
                                        !.session_id = session_id,
                                        !.state = obj,
                                        !.first = first ] ]
  /\ UNCHANGED << today, store, tool_calls, generation, calendar_info >>

\* variant: the sessions that are not in the store share one state object
Start_SharedState(c, session_id) ==
  /\ calls[c].pc = "idle"
  /\ \A d \in CallIds : d < c => calls[d].pc # "idle"
  /\ LET known == TruthyId(session_id) /\ store[session_id[1]] # 0
         obj == IF known THEN store[session_id[1]] ELSE 1
         new_id == IF TruthyId(session_id) THEN session_id[1] ELSE uuid4(c)
         state == IF known THEN heap[obj] ELSE ConversationState(new_id)
         first == state.travel_details = None
     IN /\ heap' = [ heap EXCEPT ![obj] =
                       IF first THEN [ state EXCEPT !.original_query = Some(c) ]
                       ELSE state ]
        /\ calls' = [ Released(calls) EXCEPT ![c] =
                        [ NoCall EXCEPT !.pc = "parsing",
                                        !.session_id = session_id,
                                        !.state = obj,
                                        !.first = first ] ]
  /\ UNCHANGED << today, store, tool_calls, generation, calendar_info >>

Start(c, session_id) ==
  /\ calls[c].pc = "idle"
  /\ \A d \in CallIds : d < c => calls[d].pc # "idle"
  /\ LET known == TruthyId(session_id) /\ store[session_id[1]] # 0
         obj == IF known THEN store[session_id[1]] ELSE c
         new_id == IF TruthyId(session_id) THEN session_id[1] ELSE uuid4(c)
         state == IF known THEN heap[obj] ELSE ConversationState(new_id)
         first == state.travel_details = None
     IN /\ heap' = [ heap EXCEPT ![obj] =
                       IF first THEN [ state EXCEPT !.original_query = Some(c) ]
                       ELSE state ]
        /\ calls' = [ Released(calls) EXCEPT ![c] =
                        [ NoCall EXCEPT !.pc = "parsing",
                                        !.session_id = session_id,
                                        !.state = obj,
                                        !.first = first ] ]
  /\ UNCHANGED << today, store, tool_calls, generation, calendar_info >>

\* parse_travel_query returns on the first message of a session; the oracle
\* answers with details of the set extractions and a list of missing_lists
FirstParseReturnsWith(c, extractions, missing_lists, query_kinds) ==
  /\ calls[c].pc = "parsing"
  /\ calls[c].first
  /\ \E details \in extractions, missing_info \in missing_lists :
       \E kind \in query_kinds :
         LET search_queries == OracleQueries(kind, details, today)
             parse_result == [ details |-> details,
                               missing_info |-> missing_info,
                               search_queries |-> search_queries ]
         IN /\ heap' = [ heap EXCEPT ![calls[c].state] =
                          AppendHistory(FirstMerge(@, parse_result), "user", c) ]
            /\ calls' = [ calls EXCEPT ![c].pc = "agent",
                                       ![c].parse_result = Some(parse_result) ]
  /\ UNCHANGED << today, store, tool_calls, generation, calendar_info >>

FirstParseReturns(c) ==
  FirstParseReturnsWith(c, Extractions, OracleMissing, OracleQueryKinds)

\* parse_travel_query returns on a follow-up message; of the result only
\* the details are read
FollowUpParseReturnsWith(c, extractions) ==
  /\ calls[c].pc = "parsing"
  /\ ~calls[c].first
  /\ \E details \in extractions :
       /\ heap' = [ heap EXCEPT ![calls[c].state] =
                     AppendHistory(FollowUpMerge(@, details), "user", c) ]
       /\ calls' = [ calls EXCEPT ![c].pc = "agent",
                                  ![c].parse_result =
                                    Some([ details |-> details,
                                           missing_info |-> << >>,
                                           search_queries |-> << >> ]) ]
  /\ UNCHANGED << today, store, tool_calls, generation, calendar_info >>

FollowUpParseReturns(c) == FollowUpParseReturnsWith(c, Extractions)

\* variant: a failure on a follow-up message resets the details as one on
\* the first message does
ParseRaises_AlwaysResets(c) ==
  /\ calls[c].pc = "parsing"
  /\ heap' = [ heap EXCEPT ![calls[c].state] =
                 AppendHistory(FirstMergeFailed(@), "user", c) ]
  /\ calls' = [ calls EXCEPT ![c].pc = "agent" ]
  /\ UNCHANGED << today, store, tool_calls, generation, calendar_info >>

\* parse_travel_query raises
ParseRaises(c) ==
  /\ calls[c].pc = "parsing"
  /\ heap' = [ heap EXCEPT ![calls[c].state] =
                 AppendHistory(IF calls[c].first THEN FirstMergeFailed(@) ELSE @,
                               "user", c) ]
  /\ calls' = [ calls EXCEPT ![c].pc = "agent" ]
  /\ UNCHANGED << today, store, tool_calls, generation, calendar_info >>

(***************************************************************************)
(* travel_chat_agent.run: the reply generator calls tools on the state.    *)
(***************************************************************************)
\* the local variable parse_result of call c once a tool has left the state
\* as state: on a first message state.travel_details and state.missing_info
\* are the very objects parse_result.details and parse_result.missing_info
\* (assigned without a copy), and the tools change them in place; the list
\* state.search_queries is only ever replaced
SharedParseResult(c, state) ==
  IF calls[c].first /\ calls[c].parse_result # None
     /\ state.travel_details # None
  THEN Some([ calls[c].parse_result[1] EXCEPT
                !.details = state.travel_details[1],
                !.missing_info = state.missing_info ])
  ELSE calls[c].parse_result

\* SESSION_STORAGE[sid] = state of call c: the object stored under sid
\* before is dropped when no reference to it is left, that is when no other
\* id of the store and no other call that has not ended holds it
Overwritten(c, sid) ==
  LET replaced == store[sid]
  IN IF /\ replaced # 0
        /\ replaced # calls[c].state
        /\ \A other \in DOMAIN store : other # sid => store[other] # replaced
        /\ \A d \in CallIds : d # c /\ InFlight(d) => calls[d].state # replaced
     THEN { replaced }
     ELSE { }

\* the reply generator calls update_travel_details(field, value): the tool
\* runs up to its await of the oracle and is suspended there
ToolUpdateWith(c, fields, values) ==
  /\ calls[c].pc = "agent"
  /\ tool_calls < MaxToolCalls
  /\ \E field \in fields, value \in values :
       calls' = [ calls EXCEPT ![c].pc = "tool",
                                ![c].tool = Some([ field |-> field,
                                                   value |-> value ]) ]
  /\ heap' = [ heap EXCEPT ![calls[c].state] = InitialiseDetails(@) ]
  /\ tool_calls' = tool_calls + 1
  /\ UNCHANGED << today, store, generation, calendar_info >>

\* the oracle answers the tool, or raises (outcome None): the tool runs to
\* its end and the reply generator goes on.  (travel_details is set before
\* the await and no step unsets it, so the tool finds it set.)
ToolUpdateReturns(c) ==
  /\ calls[c].pc = "tool"
  /\ heap[calls[c].state].travel_details # None
  /\ LET field == calls[c].tool[1].field
         value == calls[c].tool[1].value
     IN \E outcome \in { None } \cup { Some(e) : e \in ToolExtractions(field) } :
          LET state == UpdateAfterOracle(heap[calls[c].state], field, value,
                                         outcome)
          IN /\ heap' = [ heap EXCEPT ![calls[c].state] = state ]
             /\ calls' = [ calls EXCEPT
                             ![c].pc = "agent",
                             ![c].tool = None,
                             ![c].parse_result = SharedParseResult(c, state) ]
  /\ UNCHANGED << today, store, tool_calls, generation, calendar_info >>

ToolUpdate(c) == ToolUpdateWith(c, ToolFields, ToolValues)

ToolGenerate(c) ==
  /\ calls[c].pc = "agent"
  /\ tool_calls < MaxToolCalls
  /\ LET state == generate_search_queries(heap[calls[c].state], today)
     IN /\ heap' = [ heap EXCEPT ![calls[c].state] = state ]
        /\ calls' = [ calls EXCEPT
                        ![c].parse_result = SharedParseResult(c, state) ]
  /\ tool_calls' = tool_calls + 1
  /\ UNCHANGED << today, store, generation, calendar_info >>

\* the reply generator returns: the reply is recorded, queries are generated
\* when nothing is missing, the state is stored and the response built; the
\* object this replaces in the store is dropped when nothing else holds it
AgentReturns(c) ==
  /\ calls[c].pc = "agent"
  /\ LET state == EndOfTurnGeneration(
                    AppendHistory(heap[calls[c].state], "assistant", c), today)
     IN /\ heap' = [ o \in DOMAIN heap |->
                       IF o = calls[c].state THEN state
                       ELSE IF o \in Overwritten(c, state.session_id)
                            THEN ConversationState(0)
                            ELSE heap[o] ]
        /\ store' = [ store EXCEPT ![state.session_id] = calls[c].state ]
        /\ calls' = [ calls EXCEPT ![c].pc = "returned",
                                   ![c].parse_result = None,
                                   ![c].response = Some(ChatResponse(state, c)) ]
  /\ UNCHANGED << today, tool_calls, generation, calendar_info >>

\* the reply generator raises: process_message raises, nothing is stored;
\* a state object that no reference is left to is dropped
AgentRaises(c) ==
  /\ calls[c].pc = "agent"
  /\ heap' = IF \E sid \in DOMAIN store : store[sid] = calls[c].state
             THEN heap
             ELSE [ heap EXCEPT ![calls[c].state] = ConversationState(0) ]
  /\ calls' = [ calls EXCEPT ![c].pc = "raised", ![c].parse_result = None ]
  /\ UNCHANGED << today, store, tool_calls, generation, calendar_info >>

\* the /chat endpoint: what the caller receives for a call that ended; an
\* exception out of process_message becomes an HTTP 500 whose detail carries
\* the text of the exception
chat(c) ==
  IF calls[c].pc = "returned"
  THEN [ status_code |-> 200, body |-> calls[c].response ]
  ELSE [ status_code |-> 500, body |-> << "Error processing chat message: str(e)" >> ]

(***************************************************************************)
(* One client, one conversation: the turns follow one another.             *)
(***************************************************************************)
NoneInFlight == \A d \in CallIds : ~InFlight(d)

Next ==
  \/ \E c \in CallIds, sid \in ClientIds : NoneInFlight /\ Start(c, Some(sid))
  \/ \E c \in CallIds : FirstParseReturns(c)
  \/ \E c \in CallIds : FollowUpParseReturns(c)
  \/ \E c \in CallIds : ParseRaises(c)
  \/ \E c \in CallIds : ToolUpdate(c)
  \/ \E c \in CallIds : ToolUpdateReturns(c)
  \/ \E c \in CallIds : ToolGenerate(c)
  \/ \E c \in CallIds : AgentReturns(c)
  \/ \E c \in CallIds : AgentRaises(c)

Spec == Init /\ [][Next]_vars

(***************************************************************************)
(* Several clients: the calls of process_message run as tasks of one event *)
(* loop and interleave at their awaits (the oracle call, the run of the    *)
(* reply generator).  A client sends no session id, an empty one, one it   *)
(* made up, or one that is in the store.                                   *)
(***************************************************************************)
StoredIds == { sid \in SessionIds : store[sid] # 0 }

\* what the oracle extracts from the messages of these clients
SessionExtractions ==
  { [ NoDetails EXCEPT !.destination = "Paris",
                       !.specific_month = Some("June"),
                       !.trip_length_days = Some(3) ] }

SessionMissing == { << >> }

SessionQueryKinds == { "none", "generated" }

\* the tool calls the reply generator makes for them
SessionToolFields == { "destination" }
SessionToolValues == { "Rome" }

SessionFirstParseReturns(c) ==
  FirstParseReturnsWith(c, SessionExtractions, SessionMissing, SessionQueryKinds)

SessionFollowUpParseReturns(c) ==
  FollowUpParseReturnsWith(c, SessionExtractions)

SessionToolUpdate(c) ==
  ToolUpdateWith(c, SessionToolFields, SessionToolValues)

SessionArgs ==
  { None, Some(0) } \cup { Some(sid) : sid \in MadeUpIds \cup StoredIds }

NextSessions ==
  \/ \E c \in CallIds, session_id \in SessionArgs : Start(c, session_id)
  \/ \E c \in CallIds : SessionFirstParseReturns(c)
  \/ \E c \in CallIds : SessionFollowUpParseReturns(c)
  \/ \E c \in CallIds : ParseRaises(c)
  \/ \E c \in CallIds : SessionToolUpdate(c)
  \/ \E c \in CallIds : ToolUpdateReturns(c)
  \/ \E c \in CallIds : ToolGenerate(c)
  \/ \E c \in CallIds : AgentReturns(c)
  \/ \E c \in CallIds : AgentRaises(c)

SpecSessions == Init /\ [][NextSessions]_vars

(***************************************************************************)
(* Vocabulary of the properties.                                           *)
(***************************************************************************)
\* the names under which the critical fields are listed in missing_info
CriticalFields == { "destination", "travel_dates", "trip_length_days" }

\* the missing set contains no critical field
NoCriticalMissing(missing_info) ==
  \A i \in 1..Len(missing_info) : missing_info[i] \notin CriticalFields

\* the ConversationState objects in existence
Objects == { o \in CallIds : heap[o].session_id # 0 }

\* field f of details d carries a value (is not null, empty or the default)
Given(d, f) ==
  CASE f = "destination" -> d[f] # ""
    [] f \in { "origin", "specific_month" } -> TruthyOptStr(d[f])
    [] f = "travelers" -> d[f] > 1
    [] f = "flexible_dates" -> d[f]
    [] OTHER -> d[f] # << >>

\* the details lack a critical field: no destination, no trip length, or no
\* temporal constraint
DestinationUnset(d) == d.destination = ""
TripLengthUnset(d) == d.trip_length_days = None
DatesUnset(d) == ~TruthyOptStr(d.specific_month) /\ d.earliest_start_date = None
CriticalUnset(d) == DestinationUnset(d) \/ TripLengthUnset(d) \/ DatesUnset(d)

\* call c is in a state right after the follow-up merge of an extraction
\* (this step of c is the follow-up merge)
FollowUpMergeStep(c) ==
  /\ calls[c].pc = "parsing"
  /\ ~calls[c].first
  /\ calls'[c].pc = "agent"
  /\ calls'[c].parse_result # None

\* the details before and after a step of call c, and the extraction merged
DetailsBefore(c) == heap[calls[c].state].travel_details[1]
DetailsAfter(c) == heap'[calls[c].state].travel_details[1]
MissingAfter(c) == heap'[calls[c].state].missing_info
Extracted(c) == calls'[c].parse_result[1].details

\* the state a returned call stored
Returned(c) == calls[c].pc = "returned"
StateOf(c) == heap[calls[c].state]
ResponseOf(c) == calls[c].response[1]

\* queries have been generated for the current intent of the session: the
\* flag is set and every stored query goes to the destination of
\* travel_details
GeneratedForCurrentIntent(state) ==
  /\ state.queries_generated
  /\ \A k \in 1..Len(state.search_queries) :
       state.search_queries[k].destination
         = state.travel_details[1].destination

(***************************************************************************)
(* C1.  Every response's has_complete_details is true if and only if the   *)
(* session's missing set contains no critical field and queries have been  *)
(* generated for the session's current intent.  (Fails: the response       *)
(* reads only the flag queries_generated, which stays set when the         *)
(* destination changes after generation.)                                  *)
(***************************************************************************)
C1_HasCompleteDetailsIff ==
  \A c \in CallIds :
    Returned(c) =>
      (ResponseOf(c).has_complete_details
         <=> (NoCriticalMissing(StateOf(c).missing_info)
              /\ GeneratedForCurrentIntent(StateOf(c))))

(***************************************************************************)
(* C2.  At the end of every turn that returns normally, if the missing set *)
(* contains no critical field then queries have been generated, even when  *)
(* optional fields are still missing.  (Fails: generation waits for an     *)
(* empty missing_info.)                                                    *)
(***************************************************************************)
C2_CriticalCompleteGenerates ==
  \A c \in CallIds :
    Returned(c) /\ NoCriticalMissing(StateOf(c).missing_info)
      => StateOf(c).queries_generated

(***************************************************************************)
(* C3.  In every session state, search_queries is non-empty only if the    *)
(* missing set contains no critical field.                                 *)
(***************************************************************************)
C3_QueriesOnlyWhenCriticalComplete ==
  \A o \in Objects :
    heap[o].search_queries # << >> => NoCriticalMissing(heap[o].missing_info)

\* a session holds queries after more than one message
C3_Witness ==
  \E o \in Objects :
    /\ heap[o].search_queries # << >>
    /\ Len(heap[o].conversation_history) >= 3

(***************************************************************************)
(* C4.  In every session state with queries_generated true, every stored   *)
(* query's destination is the current travel_details.destination.  (Fails: *)
(* a later change of the destination leaves the earlier queries in place.) *)
(***************************************************************************)
C4_QueriesMatchIntent ==
  \A o \in Objects :
    heap[o].queries_generated =>
      \A k \in 1..Len(heap[o].search_queries) :
        heap[o].search_queries[k].destination
          = heap[o].travel_details[1].destination

(***************************************************************************)
(* C5.  Reset: once a session is critical-complete with queries_generated  *)
(* true, a merge that leaves a critical field missing again makes          *)
(* queries_generated false and search_queries empty.  (Fails: nothing      *)
(* resets them.)                                                           *)
(***************************************************************************)
C5_Reset ==
  [][ \A o \in Objects :
        ( /\ heap[o].queries_generated
          /\ heap[o].travel_details # None
          /\ ~CriticalUnset(heap[o].travel_details[1])
          /\ heap'[o].travel_details # None
          /\ CriticalUnset(heap'[o].travel_details[1]) )
        => ( /\ ~heap'[o].queries_generated
             /\ heap'[o].search_queries = << >> ) ]_vars

(***************************************************************************)
(* C6.  After every merge, every critical field that is unset in           *)
(* travel_details is in missing_info, whatever the oracle returned.        *)
(* (Fails: missing_info is the oracle's list, and the tool removes a name  *)
(* without a value being assigned.)                                        *)
(***************************************************************************)
C6_UnsetCriticalIsMissing ==
  \A o \in Objects :
    heap[o].travel_details # None =>
      LET d == heap[o].travel_details[1]
          m == heap[o].missing_info
      IN /\ DestinationUnset(d) => Contains(m, "destination")
         /\ TripLengthUnset(d) => Contains(m, "trip_length_days")
         /\ DatesUnset(d) => Contains(m, "travel_dates")

(***************************************************************************)
(* C7.  After every follow-up merge, no field that has a value in the      *)
(* merged intent appears in missing_info.  (Fails: a name is removed only  *)
(* when the extraction changes the field.)                                 *)
(***************************************************************************)
C7_NoValuedFieldMissing ==
  [][ \A c \in CallIds :
        FollowUpMergeStep(c) =>
          /\ \A f \in { "destination", "origin", "trip_length_days",
                         "specific_month", "budget" } :
               Given(DetailsAfter(c), f) => ~Contains(MissingAfter(c), f)
          /\ ~DatesUnset(DetailsAfter(c))
               => ~Contains(MissingAfter(c), "travel_dates") ]_vars

(***************************************************************************)
(* C8.  After a follow-up merge every field of the intent equals the       *)
(* extracted value when that is non-null/non-empty, and the prior value    *)
(* otherwise.  (Fails: latest_start_date, flexible_dates,                  *)
(* preferred_airlines and max_stops are never merged.)                     *)
(***************************************************************************)
C8_MergeRule ==
  [][ \A c \in CallIds :
        FollowUpMergeStep(c) =>
          \A f \in DOMAIN DetailsBefore(c) :
            DetailsAfter(c)[f] = IF Given(Extracted(c), f)
                                 THEN Extracted(c)[f]
                                 ELSE DetailsBefore(c)[f] ]_vars

(***************************************************************************)
(* C9.  A follow-up merge never loses known information: a field that is   *)
(* set before the merge and null/empty in the extraction has the same      *)
(* value after the merge.                                                  *)
(***************************************************************************)
C9_MergeKeepsKnown ==
  [][ \A c \in CallIds :
        FollowUpMergeStep(c) =>
          \A f \in DOMAIN DetailsBefore(c) :
            Given(DetailsBefore(c), f) /\ ~Given(Extracted(c), f)
              => DetailsAfter(c)[f] = DetailsBefore(c)[f] ]_vars

\* a follow-up merge of an extraction with no destination has happened on a
\* session whose destination is Paris
C9_Witness ==
  \E c \in CallIds :
    /\ calls[c].pc = "agent"
    /\ ~calls[c].first
    /\ calls[c].parse_result # None
    /\ calls[c].parse_result[1].details.destination = ""
    /\ StateOf(c).travel_details[1].destination = "Paris"

(***************************************************************************)
(* C10.  Idempotence: for every session state and every extraction E, the  *)
(* follow-up merge of E applied twice in a row yields the same             *)
(* missing_info as applied once.                                           *)
(***************************************************************************)
C10_MergeIdempotent ==
  \A o \in Objects :
    heap[o].travel_details # None =>
      \A e \in Extractions :
        FollowUpMerge(FollowUpMerge(heap[o], e), e).missing_info
          = FollowUpMerge(heap[o], e).missing_info

\* a session state from which the merge of some extraction shortens
\* missing_info
C10_Witness ==
  \E o \in Objects :
    /\ heap[o].travel_details # None
    /\ \E e \in Extractions :
         Len(FollowUpMerge(heap[o], e).missing_info) < Len(heap[o].missing_info)

\* this step of call c is the end of an oracle call that raised
ParseRaisesStep(c) ==
  /\ calls[c].pc = "parsing"
  /\ calls'[c] # calls[c]
  /\ calls'[c].parse_result = None

(***************************************************************************)
(* C11.  If the oracle call raises on the first message of a session, the  *)
(* merge step propagates no exception (the call goes on to the reply       *)
(* generator), travel_details becomes an empty intent, and missing_info is *)
(* the full default list: destination, trip_length_days, travel_dates,     *)
(* origin, budget.                                                         *)
(***************************************************************************)
C11_FirstFailureDefaults ==
  [][ \A c \in CallIds :
        ParseRaisesStep(c) /\ calls[c].first =>
          /\ calls'[c].pc = "agent"
          /\ heap'[calls[c].state].travel_details = Some(TravelQueryDetails(""))
          /\ heap'[calls[c].state].missing_info
               = << "destination", "trip_length_days", "travel_dates",
                    "origin", "budget" >> ]_vars

\* the oracle raised on the first message of a session and the call is with
\* the reply generator
C11_Witness ==
  \E c \in CallIds :
    /\ calls[c].pc = "agent"
    /\ calls[c].first
    /\ calls[c].parse_result = None
    /\ Len(StateOf(c).missing_info) = 5

(***************************************************************************)
(* C12.  If the oracle call raises on a follow-up turn, travel_details and *)
(* missing_info after the merge step are those before it.                  *)
(***************************************************************************)
C12_FollowUpFailureKeeps ==
  [][ \A c \in CallIds :
        ParseRaisesStep(c) /\ ~calls[c].first =>
          /\ heap'[calls[c].state].travel_details
               = heap[calls[c].state].travel_details
          /\ heap'[calls[c].state].missing_info
               = heap[calls[c].state].missing_info ]_vars

\* the oracle raised on a follow-up turn of a session that has a destination
\* and fields still missing
C12_Witness ==
  \E c \in CallIds :
    /\ calls[c].pc = "agent"
    /\ ~calls[c].first
    /\ calls[c].parse_result = None
    /\ StateOf(c).travel_details[1].destination # ""
    /\ StateOf(c).missing_info # << >>

(***************************************************************************)
(* C13.  Every turn ends with a well-formed response: whatever the oracle  *)
(* or the reply generator does, no failure propagates out of               *)
(* process_message or reaches the /chat caller as an error.  (Fails: the   *)
(* run of the reply generator is not guarded, and /chat turns its          *)
(* exception into an HTTP 500 carrying the exception's text.)              *)
(***************************************************************************)
C13_EveryTurnResponds ==
  \A c \in CallIds :
    calls[c].pc \in { "returned", "raised" } =>
      /\ calls[c].pc = "returned"
      /\ chat(c).status_code = 200

\* the number of further turns looked at
TurnsAhead == 2

\* the extraction e supplies a value for the name listed in missing_info
Supplies(e, name) ==
  CASE name = "travel_dates" -> ~DatesUnset(e)
    [] name \in DOMAIN e -> Given(e, name)
    [] OTHER -> FALSE

SuppliesAll(e, missing_info) ==
  \A i \in 1..Len(missing_info) : Supplies(e, missing_info[i])

\* the state a follow-up turn leaves behind when the oracle extracts e and
\* the reply generator returns without calling a tool
TurnOf(state, e, day) == EndOfTurnGeneration(FollowUpMerge(state, e), day)

\* a response built from the state has has_complete_details = true
Complete(state) == state.missing_info = << >> /\ state.queries_generated

\* every run of at most n turns, each with an extraction that supplies all
\* that is listed as missing, reaches a complete state
RECURSIVE CompletesWithin(_, _, _)
CompletesWithin(state, n, day) ==
  \/ Complete(state)
  \/ /\ n > 0
     /\ \A e \in Extractions :
          SuppliesAll(e, state.missing_info)
            => CompletesWithin(TurnOf(state, e, day), n - 1, day)

(***************************************************************************)
(* C14.  A session never gets stuck collecting: from every stored session  *)
(* state, turns whose extractions succeed and supply a value for every     *)
(* field listed in missing_info lead to has_complete_details = true.       *)
(* (Fails: the merge removes a name only when the extraction changes the   *)
(* field, and knows only some names.)                                      *)
(***************************************************************************)
C14_NeverStuck ==
  NoneInFlight =>
    \A sid \in StoredIds :
      CompletesWithin(heap[store[sid]], TurnsAhead, today)

\* this step of call c is its normal return, and c created its session
NewSessionReturns(c) ==
  /\ calls[c].pc = "agent"
  /\ calls'[c].pc = "returned"
  /\ calls[c].state = c

(***************************************************************************)
(* C15 as stated.  A call with a session_id that is not in the store       *)
(* creates a session keyed by that same id, stores it on normal return and *)
(* returns that id; a call with no session_id generates a fresh id and     *)
(* returns it.  (Fails for the empty string: it is not in the store, and   *)
(* the session is keyed by a generated id.)                                *)
(***************************************************************************)
C15_UnknownIdCreates ==
  [][ \A c \in CallIds :
        NewSessionReturns(c) =>
          LET id == heap'[c].session_id
          IN /\ store'[id] = c
             /\ calls'[c].response[1].session_id = id
             /\ calls[c].session_id # None => id = calls[c].session_id[1]
             /\ calls[c].session_id = None
                  => id \notin MadeUpIds /\ store[id] = 0 ]_vars

(***************************************************************************)
(* C15 amended.  A call with a non-empty session_id that is not in the     *)
(* store creates a session keyed by that same id, stores it on normal      *)
(* return and returns that id; a call with no session_id or with the empty *)
(* string generates a fresh id, keys the session by it and returns it.     *)
(***************************************************************************)
C15_UnknownNonEmptyIdCreates ==
  [][ \A c \in CallIds :
        NewSessionReturns(c) =>
          LET id == heap'[c].session_id
          IN /\ store'[id] = c
             /\ calls'[c].response[1].session_id = id
             /\ TruthyId(calls[c].session_id) => id = calls[c].session_id[1]
             /\ ~TruthyId(calls[c].session_id)
                  => id \notin MadeUpIds /\ id # 0 /\ store[id] = 0 ]_vars

\* a call with a made-up id that was not in the store has returned and its
\* session is stored under that id, and another call was given no id and
\* its session is stored under a generated one
C15_Witness ==
  \E c, d \in CallIds :
    /\ Returned(c)
    /\ calls[c].state = c
    /\ calls[c].session_id = Some(1)
    /\ store[1] = c
    /\ Returned(d)
    /\ calls[d].state = d
    /\ ~TruthyId(calls[d].session_id)
    /\ store[uuid4(d)] = d

\* the transcript h holds the user entry and the assistant entry of call c
HasEntriesOf(h, c) ==
  /\ \E i \in 1..Len(h) : h[i] = [ role |-> "user", content |-> c ]
  /\ \E i \in 1..Len(h) : h[i] = [ role |-> "assistant", content |-> c ]

\* calls c and d ran at the same time for one session id and both returned
\* (the frame of a call that ended before another one started is released)
BothReturned(c, d) ==
  /\ c # d
  /\ Returned(c)
  /\ Returned(d)
  /\ ResponseOf(c).session_id = ResponseOf(d).session_id

(***************************************************************************)
(* C16.  Two calls running concurrently for the same session id serialize  *)
(* and no update is lost: after both return, the stored session contains   *)
(* the transcript entries of both calls, also when the id was not in the   *)
(* store when both started.  (Fails for an id not yet in the store: each   *)
(* call creates its own state and the later return overwrites the          *)
(* earlier.)                                                               *)
(***************************************************************************)
C16_NoLostUpdate ==
  \A c, d \in CallIds :
    BothReturned(c, d) =>
      LET stored == heap[store[ResponseOf(c).session_id]]
      IN /\ HasEntriesOf(stored.conversation_history, c)
         /\ HasEntriesOf(stored.conversation_history, d)

\* this step is a step of call c
StepOf(c) ==
  \/ \E session_id \in SessionArgs : Start(c, session_id)
  \/ SessionFirstParseReturns(c)
  \/ SessionFollowUpParseReturns(c)
  \/ ParseRaises(c)
  \/ SessionToolUpdate(c)
  \/ ToolUpdateReturns(c)
  \/ ToolGenerate(c)
  \/ AgentReturns(c)
  \/ AgentRaises(c)

\* the session id call c works for, in a step of c
IdInStep(c) ==
  CASE calls[c].state # 0 -> heap[calls[c].state].session_id
    [] calls[c].state = 0 /\ calls'[c].state # 0
         -> heap'[calls'[c].state].session_id
    [] OTHER -> 0

\* what is stored under sid: intent, missing set, transcript, queries
StoredState(sid) == IF store[sid] = 0 THEN None ELSE Some(heap[store[sid]])

\* call c can take a step, whatever the other calls are doing
CanStep(c) ==
  /\ calls[c].pc = "parsing" => ENABLED ParseRaises(c)
  /\ calls[c].pc = "agent" => ENABLED AgentReturns(c)
  /\ calls[c].pc = "tool" => ENABLED ToolUpdateReturns(c)

(***************************************************************************)
(* C17.  Sessions are isolated: under any interleaving, a call in flight   *)
(* can always take its next step (it waits on no other session), and a     *)
(* step that changes what is stored under an id other than X is not a step *)
(* of a call for session id X.                                             *)
(***************************************************************************)
C17_SessionsIsolated ==
  /\ [](\A c \in CallIds : CanStep(c))
  /\ [][ LET changed == { sid \in SessionIds :
                            StoredState(sid)' # StoredState(sid) }
         IN changed # { } =>
              \A c \in CallIds :
                (\E sid \in changed : sid # IdInStep(c)) => ~StepOf(c) ]_vars

\* two calls that ran at the same time for different session ids have both
\* returned, and both sessions are stored
C17_Witness ==
  \E c, d \in CallIds :
    /\ Returned(c)
    /\ Returned(d)
    /\ StateOf(c).session_id # StateOf(d).session_id
    /\ store[StateOf(c).session_id] = calls[c].state
    /\ store[StateOf(d).session_id] = calls[d].state
    /\ StateOf(d).search_queries # << >>

(***************************************************************************)
(* C18.  A session's stored state changes only when a turn returns         *)
(* normally: when process_message raises, what is stored under the session *)
(* id is what was stored before the call; in particular it holds no        *)
(* transcript entry of the call that raised.  (Fails for a stored session: *)
(* the call works on the stored object itself.)                            *)
(***************************************************************************)
C18_RaiseLeavesStored ==
  \A c \in CallIds :
    calls[c].pc = "raised" =>
      \A sid \in StoredIds :
        \A i \in 1..Len(heap[store[sid]].conversation_history) :
          heap[store[sid]].conversation_history[i].content # c

\* the sequence p is a prefix of the sequence h
IsPrefix(p, h) == Len(p) <= Len(h) /\ SubSeq(h, 1, Len(p)) = p

(***************************************************************************)
(* C19.  The transcript stored under a session id is append-only: across   *)
(* any sequence and interleaving of calls, the conversation_history stored *)
(* under an id later has every earlier stored history of that id as a      *)
(* prefix.  (Fails when two calls for an id not yet stored overlap: the    *)
(* later return replaces the stored session, see C16.)                     *)
(***************************************************************************)
C19_TranscriptAppendOnly ==
  [][ \A sid \in SessionIds :
        store[sid] # 0 =>
          /\ store'[sid] # 0
          /\ IsPrefix(heap[store[sid]].conversation_history,
                      heap'[store'[sid]].conversation_history) ]_vars

\* the response entry r is the stored query q: same route, budget and
\* travelers, and the dates of q written as year, month and day
SameQuery(r, q) ==
  /\ r.origin = q.origin
  /\ r.destination = q.destination
  /\ r.budget = q.budget
  /\ r.travelers = q.travelers
  /\ Date(r.depart_date.year, r.depart_date.month, r.depart_date.day)
       = q.depart_date
  /\ Date(r.return_date.year, r.return_date.month, r.return_date.day)
       = q.return_date

(***************************************************************************)
(* C20.  Every response's search_queries list has at most 5 entries, and   *)
(* they are, in order, the leading entries of the session's stored         *)
(* search_queries.                                                         *)
(***************************************************************************)
C20_ResponseQueriesCapped ==
  \A c \in CallIds :
    Returned(c) =>
      LET r == ResponseOf(c).search_queries
          q == StateOf(c).search_queries
      IN /\ Len(r) <= 5
         /\ Len(r) <= Len(q)
         /\ \A k \in 1..Len(r) : SameQuery(r[k], q[k])

\* a response carries five queries of a session that has stored more
C20_Witness ==
  \E c \in CallIds :
    /\ Returned(c)
    /\ Len(ResponseOf(c).search_queries) = 5
    /\ Len(StateOf(c).search_queries) > 5

\* the number of days a stored query spans
SpanOf(q) == q.return_date - q.depart_date

(***************************************************************************)
(* C21.  Every query stored in a session's search_queries or returned in a *)
(* response has depart_date < return_date, and the queries of one          *)
(* generation span the trip length of the intent they were generated from: *)
(* all the queries of a stored list span the same number of days, which is *)
(* the intent's trip length when the list was generated in this state.     *)
(* (Fails on the first turn, where the oracle's own queries are stored as  *)
(* they come.)                                                             *)
(***************************************************************************)
C21_QueriesSpanTrip ==
  /\ \A o \in Objects :
       LET q == heap[o].search_queries
       IN /\ \A k \in 1..Len(q) : q[k].depart_date < q[k].return_date
          /\ \A j, k \in 1..Len(q) : SpanOf(q[j]) = SpanOf(q[k])
  /\ \A c \in CallIds :
       Returned(c) =>
         \A k \in 1..Len(ResponseOf(c).search_queries) :
           LET r == ResponseOf(c).search_queries[k]
           IN Date(r.depart_date.year, r.depart_date.month, r.depart_date.day)
                < Date(r.return_date.year, r.return_date.month, r.return_date.day)

(***************************************************************************)
(* The date generator on its own.  create_flight_search_queries(details)   *)
(* is called with details drawn from DateIntents, on a day drawn from      *)
(* DateTodays; between two calls the clock may pass midnight, because      *)
(* generate_date_options reads date.today() on every call.                 *)
(***************************************************************************)
MaxInvocations == 2
MaxMidnights == 1

DateTodays ==
  { [ year |-> 2025, month |-> 1, day |-> 1 ],
    [ year |-> 2025, month |-> 7, day |-> 15 ],
    [ year |-> 2025, month |-> 12, day |-> 31 ] }

MonthNames ==
  { "January", "February", "March", "April", "May", "June", "July",
    "August", "September", "October", "November", "December" }

\* strptime(name, "%B") raises ValueError for these
UnparseableMonths == { "Juno" }

\* trip_length_days is an Optional[int] that nothing validates: absent,
\* negative, zero, or a positive number of days
TripLengths == { None } \cup { Some(n) : n \in { -2, 0, 1, 3, 4, 5, 7, 20, 31 } }

DateIntents ==
  { [ TravelQueryDetails("Paris") EXCEPT
        !.specific_month = m,
        !.trip_length_days = t,
        !.earliest_start_date = e,
        !.latest_start_date = l ] :
      m \in { None } \cup { Some(n) : n \in MonthNames \cup UnparseableMonths },
      t \in TripLengths,
      e \in { None, Some(EarlyDate) },
      l \in { None, Some(LateDate) } }

InitDates ==
  /\ today \in DateTodays
  /\ store = [ sid \in SessionIds |-> 0 ]
  /\ heap = [ c \in CallIds |-> ConversationState(0) ]
  /\ calls = [ c \in CallIds |-> NoCall ]
  /\ tool_calls = 0
  /\ generation \in { [ NoGeneration EXCEPT !.details = d ] : d \in DateIntents }
  /\ calendar_info = NoCalendarCall

\* one call of create_flight_search_queries(details): date_pairs is what
\* generate_date_options returned to it, today the day date.today() gave
CreateQueries ==
  /\ Len(generation.results) < MaxInvocations
  /\ generation' =
       [ generation EXCEPT
           !.results =
             Append(@, [ today          |-> today,
                         date_pairs     |-> generate_date_options(generation.details, today),
                         search_queries |-> create_flight_search_queries(generation.details, today) ]) ]
  /\ UNCHANGED << today, store, heap, calls, tool_calls, calendar_info >>

\* the wall clock passes midnight
Midnight ==
  /\ generation.midnights < MaxMidnights
  /\ today' = Calendar[Date(today.year, today.month, today.day) + 1]
  /\ generation' = [ generation EXCEPT !.midnights = @ + 1 ]
  /\ UNCHANGED << store, heap, calls, tool_calls, calendar_info >>

NextDates ==
  \/ CreateQueries
  \/ Midnight

SpecDates == InitDates /\ [][NextDates]_vars

\* the invocations made so far
Invocations == 1..Len(generation.results)
Invocation(i) == generation.results[i]
\* the day as an ordinal
Ordinal(day) == Date(day.year, day.month, day.day)

\* the details name a month that strptime parses
NamesMonth(d) ==
  TruthyOptStr(d.specific_month) /\ MonthNumber(d.specific_month[1]) # 0

\* the year of month M seen from day T: this year unless M is over at T
YearOf(M, T) == IF M < T.month THEN T.year + 1 ELSE T.year

(***************************************************************************)
(* C22: for every month M, every trip length and every day T, each pair    *)
(* generated for specific_month = M lies between the first and the last    *)
(* day of M, in T's year when M is not over at T and in the next year      *)
(* otherwise, and spans the trip length when one is given.                 *)
(* (Fails: with a negative trip_length_days the loop runs past the end of  *)
(* the month and every pair ends before it starts.)                        *)
(***************************************************************************)
C22_MonthPairsWithinMonth ==
  \A i \in Invocations :
    NamesMonth(generation.details) =>
      LET M == MonthNumber(generation.details.specific_month[1])
          T == Invocation(i).today
          Y == YearOf(M, T)
          pairs == Invocation(i).date_pairs
      IN \A k \in 1..Len(pairs) :
           /\ Date(Y, M, 1) <= pairs[k][1]
           /\ pairs[k][1] < pairs[k][2]
           /\ pairs[k][2] <= Date(Y, M, DaysInMonth(Y, M))
           /\ TruthyNum(generation.details.trip_length_days) =>
                pairs[k][2] - pairs[k][1] = generation.details.trip_length_days[1]

(***************************************************************************)
(* C23: for every intent the date generator returns at least 1 and at most *)
(* 8 date pairs, and one query for each of them.                           *)
(* (Fails: June with a trip of 5 days gives 9 pairs; a trip as long as the *)
(* month, or a month name that does not parse, gives none.)                *)
(***************************************************************************)
C23_OneToEightPairs ==
  \A i \in Invocations :
    /\ 1 <= Len(Invocation(i).date_pairs)
    /\ Len(Invocation(i).date_pairs) <= 8
    /\ Len(Invocation(i).search_queries) = Len(Invocation(i).date_pairs)

\* the details with no temporal hint: no month and no dates
NoTemporalHint(d) ==
  [ d EXCEPT !.specific_month = None,
             !.earliest_start_date = None,
             !.latest_start_date = None ]

(***************************************************************************)
(* C24: a specific_month that does not parse never yields an empty result: *)
(* the generator returns the date pairs it returns for the same details    *)
(* with no temporal hint.                                                  *)
(* (Fails: the ValueError is swallowed and the empty list is returned.)    *)
(***************************************************************************)
C24_UnparseableMonthFallsBack ==
  \A i \in Invocations :
    ( /\ TruthyOptStr(generation.details.specific_month)
      /\ MonthNumber(generation.details.specific_month[1]) = 0 ) =>
      /\ Invocation(i).date_pairs # << >>
      /\ Invocation(i).date_pairs
           = generate_date_options(NoTemporalHint(generation.details),
                                   Invocation(i).today)

(***************************************************************************)
(* C25: two invocations of the date generator with the same details return *)
(* the same ordered list of date pairs: the result depends on nothing but  *)
(* what the caller passes.                                                 *)
(* (Fails: the only argument is the details, the day is read from the      *)
(* clock inside the generator, and a call after midnight returns other     *)
(* pairs.)                                                                 *)
(***************************************************************************)
C25_GenerationDeterministic ==
  \A i, j \in Invocations :
    Invocation(i).date_pairs = Invocation(j).date_pairs

(***************************************************************************)
(* C26: when specific_month is absent and earliest_start_date is set,      *)
(* whether or not trip_length_days is set, every generated pair starts no  *)
(* earlier than earliest_start_date, ends no later than the end of the     *)
(* window (latest_start_date if set, earliest_start_date + 30 days         *)
(* otherwise), and spans the trip length when one is given.                *)
(* (Fails: the end of a pair is not held within the window, and without a  *)
(* trip length the dates are not used at all.)                             *)
(***************************************************************************)
C26_RangePairsWithinWindow ==
  \A i \in Invocations :
    LET d == generation.details
        window_end == IF d.latest_start_date # None
                      THEN d.latest_start_date[1]
                      ELSE d.earliest_start_date[1] + 30
        pairs == Invocation(i).date_pairs
    IN ( ~TruthyOptStr(d.specific_month) /\ d.earliest_start_date # None ) =>
         \A k \in 1..Len(pairs) :
           /\ d.earliest_start_date[1] <= pairs[k][1]
           /\ pairs[k][2] <= window_end
           /\ TruthyNum(d.trip_length_days) =>
                pairs[k][2] = pairs[k][1] + d.trip_length_days[1]

(***************************************************************************)
(* C27: when neither specific_month nor earliest_start_date is set, for    *)
(* every trip length every generated pair lies within the default window:  *)
(* today + 14 days <= depart and return <= today + 75 days.                *)
(* (Fails: the last pair departs on today + 58 days, so a trip of 18 days  *)
(* or more returns after today + 75 days.)                                 *)
(***************************************************************************)
C27_DefaultWindow ==
  \A i \in Invocations :
    LET d == generation.details
        pairs == Invocation(i).date_pairs
        t == Ordinal(Invocation(i).today)
    IN ( ~TruthyOptStr(d.specific_month) /\ d.earliest_start_date = None ) =>
         \A k \in 1..Len(pairs) :
           /\ t + 14 <= pairs[k][1]
           /\ pairs[k][2] <= t + 75

(***************************************************************************)
(* C28: when trip_length_days is absent, every generated date pair spans   *)
(* exactly 7 days, in every branch of the generator.                       *)
(* (Fails: the default of the generator is 3 days.)                        *)
(***************************************************************************)
C28_DefaultTripIsSeven ==
  \A i \in Invocations :
    generation.details.trip_length_days = None =>
      \A k \in 1..Len(Invocation(i).date_pairs) :
        Invocation(i).date_pairs[k][2] - Invocation(i).date_pairs[k][1] = 7

\* the step between the first two start dates of a list of pairs
StepIn(pairs) == pairs[2][1] - pairs[1][1]

\* the positive trip lengths below b
ShorterTrips(b) ==
  { a \in TripLengths : a # None /\ 0 < a[1] /\ a[1] < b }

(***************************************************************************)
(* C29: within the same window a shorter trip is stepped no more coarsely  *)
(* than a longer one: for trip lengths a < b and otherwise equal details,  *)
(* the step between the start dates generated for a is no larger than the  *)
(* step between those generated for b.                                     *)
(* (Fails in the month branch: the step is 5 days for trips of up to 3     *)
(* days and 3 days for longer ones.)                                       *)
(***************************************************************************)
C29_ShorterTripsDenser ==
  \A i \in Invocations :
    LET d == generation.details
        pairs_b == Invocation(i).date_pairs
    IN ( TruthyNum(d.trip_length_days) /\ Len(pairs_b) >= 2 ) =>
         \A a \in ShorterTrips(d.trip_length_days[1]) :
           LET pairs_a == generate_date_options(
                            [ d EXCEPT !.trip_length_days = a ],
                            Invocation(i).today)
           IN Len(pairs_a) >= 2 => StepIn(pairs_a) <= StepIn(pairs_b)

(***************************************************************************)
(* C30: when a session holds more queries than a response carries, the     *)
(* queries of the response are not the leading ones: they are spread over  *)
(* the stored list and the last of them is the last stored query.          *)
(* (Fails: the response carries search_queries[:5], and the generator      *)
(* itself selects nothing.)                                                *)
(***************************************************************************)
C30_KeptSpanTheWindow ==
  \A c \in CallIds :
    Returned(c) =>
      LET r == ResponseOf(c).search_queries
          q == StateOf(c).search_queries
      IN ( Len(r) >= 1 /\ Len(q) > Len(r) ) =>
           /\ SameQuery(r[Len(r)], q[Len(q)])
           /\ ~ \A k \in 1..Len(r) : SameQuery(r[k], q[k])

(***************************************************************************)
(* get_calendar_information(start_date, end_date, country_code).           *)
(* holidays.country_holidays is the holidays library: for a country it     *)
(* knows it gives the holidays of the years asked for, for any other code  *)
(* it raises NotImplementedError.                                          *)
(***************************************************************************)
MaxSpan == 7

\* date.weekday(): Monday is 0, Sunday is 6
weekday(o) == (o + 6) % 7

\* the countries of the holidays library that the callers use
SupportedCountries == { "US" }

\* holidays.country_holidays(country_code, years): the holidays of 2025
\* that fall near the dates called with
country_holidays(country_code) ==
  IF country_code = "US"
  THEN (Date(2025, 7, 4) :> "Independence Day")
         @@ (Date(2025, 9, 1) :> "Labor Day")
  ELSE << >>

\* the dates from start_date to end_date, both included
RECURSIVE DateRange(_, _)
DateRange(start_date, end_date) ==
  IF start_date <= end_date
  THEN << start_date >> \o DateRange(start_date + 1, end_date)
  ELSE << >>

IsWeekend(d) == weekday(d) >= 5

\* [d.isoformat() for d in dates]
IsoFormats(dates) == [ k \in 1..Len(dates) |-> isoformat(dates[k]) ]

\* the dictionary the function returns for a country the library knows
CalendarInformation(start_date, end_date, country_code) ==
  LET date_range == DateRange(start_date, end_date)
      weekends == SelectSeq(date_range, IsWeekend)
      all_holidays == country_holidays(country_code)
      holidays_in_range ==
        { d \in DOMAIN all_holidays : start_date <= d /\ d <= end_date }
      days == { date_range[k] : k \in 1..Len(date_range) }
  IN [ weekends   |-> IsoFormats(weekends),
       holidays   |-> { << isoformat(d), all_holidays[d] >> :
                          d \in holidays_in_range },
       is_weekend |-> { << isoformat(d), IsWeekend(d) >> : d \in days },
       is_holiday |-> { << isoformat(d), d \in holidays_in_range >> :
                          d \in days } ]

\* None when the call raises, the dictionary otherwise
get_calendar_information(start_date, end_date, country_code) ==
  IF country_code \in SupportedCountries
  THEN Some(CalendarInformation(start_date, end_date, country_code))
  ELSE None

CalendarDays == Date(2025, 7, 1) .. (Date(2025, 7, 1) + MaxSpan)
CountryCodes == SupportedCountries \cup { "XX" }

GetCalendarInformation ==
  \E start_date \in CalendarDays, end_date \in CalendarDays,
     country_code \in CountryCodes :
    LET result == get_calendar_information(start_date, end_date, country_code)
    IN /\ calendar_info' =
            [ pc           |-> IF result = None THEN "raised" ELSE "returned",
              start_date   |-> start_date,
              end_date     |-> end_date,
              country_code |-> country_code,
              result       |-> result ]
       /\ UNCHANGED << today, store, heap, calls, tool_calls, generation >>

NextCalendar == GetCalendarInformation

SpecCalendar == Init /\ [][NextCalendar]_vars

\* the weekend dates from start_date to end_date, both included, in order
WeekendsOf(start_date, end_date) ==
  IsoFormats(SelectSeq(DateRange(start_date, end_date), IsWeekend))

(***************************************************************************)
(* C31: get_calendar_information called with an invalid country code does *)
(* not raise: it returns the weekend dates of the range from start to end, *)
(* both included, and an empty holiday map.                                *)
(* (Fails: the NotImplementedError of the holidays library is not caught.) *)
(***************************************************************************)
C31_InvalidCountryReturns ==
  ( calendar_info.pc # "idle"
    /\ calendar_info.country_code \notin SupportedCountries ) =>
      /\ calendar_info.pc = "returned"
      /\ calendar_info.result # None
      /\ calendar_info.result[1].weekends
           = WeekendsOf(calendar_info.start_date, calendar_info.end_date)
      /\ calendar_info.result[1].holidays = { }

(***************************************************************************)
(* One client whose messages are about the dates of the trip.              *)
(***************************************************************************)
LaterDate == Date(2025, 9, 25)

\* what the oracle extracts from these messages: a range of start dates,
\* or an earliest start date alone
RangeExtractions ==
  { [ TravelQueryDetails("Rome") EXCEPT !.trip_length_days = Some(5),
                                        !.earliest_start_date = Some(EarlyDate),
                                        !.latest_start_date = Some(LateDate) ],
    [ NoDetails EXCEPT !.earliest_start_date = Some(LaterDate) ] }

RangeToolFields == { "travel_dates" }
RangeToolValues == { "September 20" }

RangeFirstParseReturns(c) ==
  FirstParseReturnsWith(c, RangeExtractions, SessionMissing, SessionQueryKinds)

RangeFollowUpParseReturns(c) ==
  FollowUpParseReturnsWith(c, RangeExtractions)

RangeToolUpdate(c) == ToolUpdateWith(c, RangeToolFields, RangeToolValues)

NextRange ==
  \/ \E c \in CallIds, sid \in ClientIds : NoneInFlight /\ Start(c, Some(sid))
  \/ \E c \in CallIds : RangeFirstParseReturns(c)
  \/ \E c \in CallIds : RangeFollowUpParseReturns(c)
  \/ \E c \in CallIds : ParseRaises(c)
  \/ \E c \in CallIds : RangeToolUpdate(c)
  \/ \E c \in CallIds : ToolUpdateReturns(c)
  \/ \E c \in CallIds : ToolGenerate(c)
  \/ \E c \in CallIds : AgentReturns(c)
  \/ \E c \in CallIds : AgentRaises(c)

SpecRange == Init /\ [][NextRange]_vars

(***************************************************************************)
(* C32: in every session state where both earliest_start_date and          *)
(* latest_start_date are set, latest_start_date >= earliest_start_date,    *)
(* also after a follow-up merge that replaces earliest_start_date alone.   *)
(* (Fails: the merge assigns the new earliest_start_date and leaves the    *)
(* stored latest_start_date.)                                              *)
(***************************************************************************)
C32_LatestNotBeforeEarliest ==
  \A o \in Objects :
    LET td == heap[o].travel_details
    IN ( /\ td # None
         /\ td[1].earliest_start_date # None
         /\ td[1].latest_start_date # None ) =>
         td[1].latest_start_date[1] >= td[1].earliest_start_date[1]

\* a is b with some entries left out: a sub-list of b, in b's order
RECURSIVE IsSubList(_, _)
IsSubList(a, b) ==
  IF a = << >> THEN TRUE
  ELSE IF b = << >> THEN FALSE
  ELSE IF Head(a) = Head(b) THEN IsSubList(Tail(a), Tail(b))
  ELSE IsSubList(a, Tail(b))

(***************************************************************************)
(* C33: after a session's first turn missing_info never gains an element:  *)
(* in every step of the later turns and tool calls on the session, the     *)
(* missing_info of the session state, and the one stored under its id, is  *)
(* a sub-list of the one before the step.                                  *)
(* (Holds while the turns of a session follow one another.  Fails when two *)
(* calls overlap on an id not yet stored: the later return replaces the    *)
(* stored session by a state of its own, see C16.)                         *)
(***************************************************************************)
C33_MissingNeverGains ==
  [][ /\ \A o \in CallIds :
           heap[o].travel_details # None =>
             IsSubList(heap'[o].missing_info, heap[o].missing_info)
      /\ \A sid \in SessionIds :
           ( store[sid] # 0 /\ store'[sid] # 0 ) =>
             IsSubList(heap'[store'[sid]].missing_info,
                       heap[store[sid]].missing_info) ]_vars

\* l.count(x)
Count(l, x) == Cardinality({ i \in 1..Len(l) : l[i] = x })

\* the step is the return of update_travel_details(field, ...) to the
\* reply generator of call c
ToolUpdateStep(c, field) ==
  /\ calls[c].pc = "tool"
  /\ calls[c].tool[1].field = field
  /\ calls'[c].pc = "agent"

(***************************************************************************)
(* C34: after update_travel_details(field, value) returns, field no longer *)
(* occurs in missing_info and last_updated_field is field, whether or not  *)
(* the oracle call succeeded or a value was assigned, and every other      *)
(* entry of missing_info is still there.                                   *)
(* (Fails when missing_info lists the field twice: one occurrence goes.)   *)
(***************************************************************************)
C34_ToolClearsField ==
  [][ \A c \in CallIds, field \in ToolFields :
        ToolUpdateStep(c, field) =>
          LET before == heap[calls[c].state].missing_info
              after == heap'[calls[c].state].missing_info
          IN /\ ~Contains(after, field)
             /\ heap'[calls[c].state].last_updated_field = Some(field)
             /\ IsSubList(after, before)
             /\ \A k \in 1..Len(before) :
                  before[k] # field =>
                    Count(after, before[k]) = Count(before, before[k]) ]_vars

(***************************************************************************)
(* Calls on a session that is already stored.  The session is the one a    *)
(* first turn leaves behind: message 0 was answered, the oracle extracted  *)
(* Paris, June and 3 days with nothing missing and the queries of the date *)
(* generator.  Two calls for its id may overlap.                           *)
(***************************************************************************)
StoredSessionId == 1

\* the state process_message stores at the end of that first turn
StoredAfterFirstTurn(day) ==
  LET details == [ NoDetails EXCEPT !.destination = "Paris",
                                    !.specific_month = Some("June"),
                                    !.trip_length_days = Some(3) ]
      parse_result == [ details |-> details,
                        missing_info |-> << >>,
                        search_queries |-> OracleQueries("generated", details, day) ]
      created == [ ConversationState(StoredSessionId) EXCEPT
                     !.original_query = Some(0) ]
  IN EndOfTurnGeneration(
       AppendHistory(AppendHistory(FirstMerge(created, parse_result),
                                   "user", 0),
                     "assistant", 0),
       day)

InitStored ==
  /\ today \in Todays
  /\ store = [ sid \in SessionIds |-> IF sid = StoredSessionId THEN 1 ELSE 0 ]
  /\ heap = [ o \in CallIds |-> IF o = 1 THEN StoredAfterFirstTurn(today)
                                ELSE ConversationState(0) ]
  /\ calls = [ c \in CallIds |-> NoCall ]
  /\ tool_calls = 0
  /\ generation = NoGeneration
  /\ calendar_info = NoCalendarCall

NextStored ==
  \/ \E c \in CallIds : Start(c, Some(StoredSessionId))
  \/ \E c \in CallIds : SessionFollowUpParseReturns(c)
  \/ \E c \in CallIds : ParseRaises(c)
  \/ \E c \in CallIds : SessionToolUpdate(c)
  \/ \E c \in CallIds : ToolUpdateReturns(c)
  \/ \E c \in CallIds : ToolGenerate(c)
  \/ \E c \in CallIds : AgentReturns(c)
  \/ \E c \in CallIds : AgentRaises(c)

SpecStored == InitStored /\ [][NextStored]_vars

\* the state the stored-session specification starts from, as the first
\* turn of one client reaches it
StoredStateReached ==
  /\ store[StoredSessionId] # 0
  /\ heap[store[StoredSessionId]]
       = [ StoredAfterFirstTurn(today) EXCEPT
             !.original_query = Some(1),
             !.conversation_history = << [ role |-> "user", content |-> 1 ],
                                         [ role |-> "assistant", content |-> 1 ] >> ]

\* the roles of the transcript h alternate: user, assistant, user, ...
RolesAlternate(h) ==
  \A k \in 1..Len(h) :
    h[k].role = IF k % 2 = 1 THEN "user" ELSE "assistant"

(***************************************************************************)
(* C35: every turn that returns has appended exactly two entries to the    *)
(* transcript, the user message and then the assistant reply, and in every *)
(* stored transcript the roles alternate user, assistant, user, assistant, *)
(* under any sequence and interleaving of turns on the session, turns that *)
(* follow a failed turn included.                                          *)
(* (Fails: a turn whose reply generator raises leaves its user entry in    *)
(* the stored transcript, and two turns that overlap on a stored session   *)
(* append their entries in the order of their awaits.)                     *)
(***************************************************************************)
C35_RolesAlternate ==
  /\ \A c \in CallIds :
       Returned(c) =>
         LET h == StateOf(c).conversation_history
             mine == SelectSeq(h, LAMBDA e : e.content = c)
         IN Len(mine) = 2 /\ mine[1].role = "user" /\ mine[2].role = "assistant"
  /\ \A sid \in SessionIds :
       store[sid] # 0 => RolesAlternate(heap[store[sid]].conversation_history)

(***************************************************************************)
(* C36: whenever a response has has_complete_details = true, its           *)
(* search_queries list is not empty, whichever path set queries_generated. *)
(* (Fails: on the first turn the oracle's own list is stored as it comes,  *)
(* empty or not, and the date generator can return no pair.)               *)
(***************************************************************************)
C36_CompleteHasQueries ==
  \A c \in CallIds :
    ( Returned(c) /\ ResponseOf(c).has_complete_details ) =>
      ResponseOf(c).search_queries # << >>

=============================================================================
